---- MODULE Spec2Model ----
(***************************************************************************)
(* Model of homeassistant/helpers/translation.py: the translation string   *)
(* cache, its fill (async_get_component_resources) and the locked entry    *)
(* point (async_get_translations), run as coroutines on one event loop.    *)
(*                                                                         *)
(* A Python str is a sequence of atoms; the atom "." is the dot, every     *)
(* other atom stands for a non-empty dot-free piece of text.  So           *)
(* "light.hue" is <<"light", ".", "hue">> and split, the "in" test and     *)
(* f-string concatenation are computed on it.                              *)
(* A Python dict is a function from keys (strs) to values; a value is      *)
(* <<"str", s>> (a leaf) or <<"dict", d>> (a nested dict).                 *)
(***************************************************************************)
EXTENDS Integers, Sequences, FiniteSets, TLC

\* ------------------------------------------------------------------ bounds
\* Number of async_get_translations invocations in one behaviour.
MaxCalls == 2

Calls == 1 .. MaxCalls

\* ------------------------------------------------------------- str helpers
Dot == "."

None == <<"None">>

\* str.split("."): the pieces between the dots.
RECURSIVE SplitFrom(_, _, _)
SplitFrom(s, cur, parts) ==
    IF s = <<>> THEN Append(parts, cur)
    ELSE IF Head(s) = Dot THEN SplitFrom(Tail(s), <<>>, Append(parts, cur))
    ELSE SplitFrom(Tail(s), Append(cur, Head(s)), parts)

split(s) == SplitFrom(s, <<>>, <<>>)

\* "." in s
HasDot(s) == \E i \in 1 .. Len(s) : s[i] = Dot

\* s.split(".", 1)[0]: the text before the first dot.
RECURSIVE BeforeFirstDot(_)
BeforeFirstDot(s) ==
    IF s = <<>> \/ Head(s) = Dot THEN <<>>
    ELSE <<Head(s)>> \o BeforeFirstDot(Tail(s))

\* parts[-1]
Last(parts) == parts[Len(parts)]

\* ------------------------------------------------------------ dict helpers
EmptyDict == <<>>

Str(s) == <<"str", s>>

Dict(d) == <<"dict", d>>

IsDict(v) == v[1] = "dict"

\* dict.update: the keys of b overwrite those of a.
Update(a, b) == b @@ a

\* ---------------------------------------------------------------- flatten
\* recursive_flatten, for dicts whose keys hold no dot (two paths then never
\* join to the same key, so the order of data.items() does not show).
RECURSIVE recursive_flatten(_, _)

\* Mutant: a leaf is stored under its own key, without the prefix.
RECURSIVE FlattenLoopUnprefixed(_, _, _)
FlattenLoopUnprefixed(prefix, data, todo) ==
    IF todo = {} THEN EmptyDict
    ELSE LET key == CHOOSE key \in todo : TRUE
             output == FlattenLoopUnprefixed(prefix, data, todo \ {key})
         IN  IF IsDict(data[key])
             THEN Update(output, recursive_flatten(prefix \o key \o <<Dot>>, data[key][2]))
             ELSE Update(output, key :> data[key])

\* Lines 26-30: the loop over the items of data; todo are the keys to visit.
RECURSIVE FlattenLoop(_, _, _)
FlattenLoop(prefix, data, todo) ==
    IF todo = {} THEN EmptyDict
    ELSE LET key == CHOOSE key \in todo : TRUE
             output == FlattenLoop(prefix, data, todo \ {key})
         IN  IF IsDict(data[key])
             THEN Update(output, recursive_flatten(prefix \o key \o <<Dot>>, data[key][2]))
             ELSE Update(output, (prefix \o key) :> data[key])

recursive_flatten(prefix, data) == FlattenLoop(prefix, data, DOMAIN data)

flatten(data) == recursive_flatten(<<>>, data)

\* ------------------------------------------------------------------ world
\* Languages, component ids and translation categories used by the calls.
en == <<"en">>

nl == <<"nl">>

de == <<"de">>

Languages == {en, nl, de}

hue == <<"hue">>

light == <<"light">>

solo == <<"solo">>

ghost == <<"ghost">>

light_hue == <<"light", Dot, "hue">>

light_solo == <<"light", Dot, "solo">>

ComponentIds == {hue, light, solo, ghost, light_hue, light_solo}

Categories == {<<"state">>, <<"title">>}

\* pathlib: a path is the sequence of its components; str(path) joins them.
RECURSIVE PathStr(_)
PathStr(path) ==
    IF Len(path) = 1 THEN path[1]
    ELSE path[1] \o <<"/">> \o PathStr(Tail(path))

\* The integration registry (homeassistant.loader.async_get_integration):
\* hue and light are packages, solo is a single file custom_components/solo.py,
\* ghost is not installed.
NotFound == [file_path |-> <<>>, name |-> "IntegrationNotFound"]

Registry(domain) ==
    IF domain = hue
    THEN [file_path |-> <<<<"components">>, hue>>, name |-> "Philips Hue"]
    ELSE IF domain = light
    THEN [file_path |-> <<<<"components">>, light>>, name |-> "Light"]
    ELSE IF domain = solo
    THEN [file_path |-> <<<<"custom_components">>, <<"solo", Dot, "py">>>>,
          name |-> "Solo"]
    ELSE NotFound

\* The translation files on disk.
TranslationPath(root, filename) ==
    PathStr(Append(Append(Registry(root).file_path, <<Dot, "translations">>), filename))

Files ==
    (TranslationPath(hue, <<"en", Dot, "json">>) :>
        ((<<"title">> :> Str("Hue")) @@
         (<<"state">> :> Dict((<<"on">> :> Str("On")) @@ (<<"off">> :> Str("Off")))))) @@
    (TranslationPath(hue, <<"nl", Dot, "json">>) :>
        (<<"state">> :> Dict(<<"on">> :> Str("Aan")))) @@
    (TranslationPath(hue, <<"light", Dot, "en", Dot, "json">>) :>
        ((<<"name">> :> Str("")) @@
         (<<"state">> :> Dict((<<"on">> :> Str("Hue on")) @@ (<<"eco">> :> Str("Eco")))))) @@
    (TranslationPath(hue, <<"light", Dot, "nl", Dot, "json">>) :>
        (<<"state">> :> Dict(<<"on">> :> Str("Hue aan")))) @@
    (TranslationPath(light, <<"en", Dot, "json">>) :>
        ((<<"title">> :> Str("Light")) @@
         (<<"state">> :> Dict((<<"on">> :> Str("Light on")) @@ (<<"dim">> :> Str("Dim")))))) @@
    (TranslationPath(light, <<"nl", Dot, "json">>) :>
        (<<"state">> :> Dict(<<"on">> :> Str("Licht aan"))))

\* async_get_config_flows(hass)
ConfigFlows == {hue}

\* Two files that may be malformed on disk.
hue_light_nl == TranslationPath(hue, <<"light", Dot, "nl", Dot, "json">>)

light_en == TranslationPath(light, <<"en", Dot, "json">>)

\* Two orders in which CPython may iterate a set of component ids: the order
\* of the hash table, fixed for the life of the process.
Forward == <<hue, light, light_hue, solo, light_solo, ghost>>

Backward == <<ghost, light_solo, solo, light_hue, light, hue>>

\* The installations the calls run in: hass.config.components, the malformed
\* files and the iteration order.
World(components, malformed, iteration) ==
    [loaded |-> components, bad |-> malformed, order |-> iteration]

Worlds ==
    { World({hue, solo}, {}, Forward),
      World({light, light_hue}, {}, Forward),
      World({light, light_hue}, {}, Backward),
      World({light, light_hue}, {hue_light_nl}, Forward),
      World({light, light_hue}, {hue_light_nl, light_en}, Backward),
      World({solo, light_solo}, {}, Forward),
      World({solo, ghost}, {}, Forward) }

\* The arguments of the async_get_translations calls.
Request(language, category, integration, config_flow) ==
    [language |-> language, category |-> category,
     integration |-> integration, config_flow |-> config_flow]

Requests ==
    { Request(nl, None, None, FALSE),
      Request(nl, <<"state">>, light_hue, FALSE),
      Request(en, <<"title">>, None, TRUE),
      Request(de, None, ghost, TRUE) }

\* ------------------------------------------------------------------ state
VARIABLES
    cache,      \* hass.data[TRANSLATION_STRING_CACHE]: language -> component -> tree
    lock,       \* hass.data[TRANSLATION_LOAD_LOCK]: the asyncio.Lock and its waiters
    call,       \* the async_get_translations coroutines
    task,       \* the async_get_component_resources tasks of each call's gather
    loaded,     \* hass.config.components
    bad,        \* the malformed files on disk
    order,      \* the iteration order of a set of component ids
    loadEvents, \* history: <<call, task, language, component>> handed to the loader
    failEvents, \* history: the load events whose batch failed
    writes,     \* history: <<language, component>> -> number of assignments
    data,       \* the argument of a call of flatten made on its own
    output      \* what that call returned

vars == <<cache, lock, call, task, loaded, bad, order, loadEvents, failEvents, writes,
          data, output>>

\* -------------------------------------------------------- path resolution
\* pathlib.Path.name
PathName(path) == Last(path)

\* Mutant: the single-file check of lines 61-64 is left out.
component_translation_file_always(component, language, integration) ==
    LET parts == split(component)
    IN  PathStr(Append(Append(integration.file_path, <<Dot, "translations">>),
                       IF Len(parts) = 2
                       THEN parts[1] \o <<Dot>> \o language \o <<Dot, "json">>
                       ELSE language \o <<Dot, "json">>))

\* component_translation_file: the path of the file, or None.
component_translation_file(component, language, integration) ==
    LET parts == split(component)
        domain == Last(parts)
        is_platform == Len(parts) = 2
    IN  IF is_platform
        THEN PathStr(Append(Append(integration.file_path, <<Dot, "translations">>),
                            parts[1] \o <<Dot>> \o language \o <<Dot, "json">>))
        ELSE IF PathName(integration.file_path) # domain
        THEN None
        ELSE PathStr(Append(Append(integration.file_path, <<Dot, "translations">>),
                            language \o <<Dot, "json">>))

\* ------------------------------------------------------------ file loader
LoadError == <<"error", "LoadError">>

\* homeassistant.util.json.load_json: the parsed document, or an error for a
\* missing, unreadable or malformed file.
load_json(filename) ==
    IF filename \in DOMAIN Files /\ filename \notin bad
    THEN Dict(Files[filename])
    ELSE LoadError

\* load_translations_files: every file of the batch, or the first error.
load_translations_files(translation_files) ==
    IF \E component \in DOMAIN translation_files :
            ~IsDict(load_json(translation_files[component]))
    THEN LoadError
    ELSE <<"ok", [component \in DOMAIN translation_files |->
                    load_json(translation_files[component])]>>

\* ------------------------------------------------------------- aggregator
\* Iterating a set of component ids.
Iterate(components) == SelectSeq(order, LAMBDA component : component \in components)

\* Mutant: the tree of the component replaces the domain's resources instead
\* of updating them.
AddComponentReplacing(resources, translation_cache, component) ==
    LET domain == IF ~HasDot(component) THEN component ELSE BeforeFirstDot(component)
    IN  Update(resources, domain :> translation_cache[component])

\* One round of build_resources' loop.
AddComponent(resources, translation_cache, component) ==
    LET domain == IF ~HasDot(component) THEN component ELSE BeforeFirstDot(component)
        start == IF domain \notin DOMAIN resources
                 THEN Update(resources, domain :> Dict(EmptyDict))
                 ELSE resources
    IN  Update(start,
               domain :> Dict(Update(start[domain][2], translation_cache[component][2])))

\* build_resources: <<"ok", resources>>, or the KeyError of a component that
\* is not in the cache.
RECURSIVE BuildLoop(_, _, _)
BuildLoop(resources, translation_cache, todo) ==
    IF todo = <<>> THEN <<"ok", resources>>
    ELSE IF Head(todo) \notin DOMAIN translation_cache THEN <<"error", "KeyError">>
    ELSE BuildLoop(AddComponent(resources, translation_cache, Head(todo)),
                   translation_cache, Tail(todo))

build_resources(translation_cache, components) ==
    BuildLoop(EmptyDict, translation_cache, Iterate(components))

\* ------------------------------------------------------------ constructors
NoRequest == Request(None, None, None, FALSE)

Pending == <<"pending">>

Ready == <<"ready">>

NoResult == <<"none">>

IdleCall ==
    [pc |-> "idle", req |-> NoRequest, components |-> {}, lock |-> 0,
     outer |-> Pending, result |-> NoResult,
     \* history of this call
     overlaps |-> {}, nresolve |-> 0, nload |-> 0]

NoTask ==
    [pc |-> "none", language |-> None, missing_loaded |-> {},
     missing_integrations |-> <<>>, missing_files |-> <<>>, result |-> NoResult]

primary == 1

fallback == 2

TaskIds == {primary, fallback}

\* The tasks line 195-199 builds: the language, and "en" unless it is the language.
TasksOf(c) == IF call[c].req.language # en THEN {primary, fallback} ELSE {primary}

Init ==
    /\ cache = EmptyDict
    /\ lock = [created |-> 0, locked |-> FALSE, holder |-> 0, waiters |-> <<>>]
    /\ call = [c \in Calls |-> IdleCall]
    /\ task = [c \in Calls |-> [i \in TaskIds |-> NoTask]]
    /\ \E world \in Worlds :
            /\ loaded = world.loaded
            /\ bad = world.bad
            /\ order = world.order
    /\ loadEvents = {}
    /\ failEvents = {}
    /\ writes = [pair \in Languages \X ComponentIds |-> 0]
    /\ data = EmptyDict
    /\ output = NoResult

\* ------------------------------------------------- async_get_translations
\* The (language, component) pairs the cache holds.
Present == {pair \in Languages \X ComponentIds :
                pair[1] \in DOMAIN cache /\ pair[2] \in DOMAIN cache[pair[1]][2]}

\* Mutant: the fetch of "en" is made beside the language's, also for "en".
GatheredTwice(language) ==
    [i \in TaskIds |->
        [NoTask EXCEPT !.pc = "created",
                       !.language = IF i = primary THEN language ELSE en]]

\* Lines 195-202: gather wraps the coroutines of the call in tasks, the
\* language's and, unless the language is "en", the one of "en".
Gathered(language) ==
    [i \in TaskIds |->
        IF i = primary THEN [NoTask EXCEPT !.pc = "created", !.language = language]
        ELSE IF language # en THEN [NoTask EXCEPT !.pc = "created", !.language = en]
        ELSE NoTask]

\* Mutant: every call makes a lock and stores it.
GetLockAnew(created) == created + 1

\* Lines 191-193: the locks made so far once a call has looked the lock up;
\* hass.data holds the last lock made (none when none was made) and the call
\* goes on with that one.
GetLock(created) == IF created = 0 THEN created + 1 ELSE created

\* Lines 191-202 for a call whose component set is known: get or create the
\* lock and enter "async with lock": take a free lock and await gather, or
\* queue behind the waiters.
EnterLock(c, started, components) ==
    LET free == ~lock.locked /\ lock.waiters = <<>>
    IN  /\ lock' = [created |-> GetLock(lock.created),
                    locked |-> IF free THEN TRUE ELSE lock.locked,
                    holder |-> IF free THEN c ELSE lock.holder,
                    waiters |-> IF free THEN lock.waiters ELSE Append(lock.waiters, c)]
        /\ call' = [call EXCEPT ![c] =
                        [started EXCEPT !.pc = IF free THEN "gather" ELSE "lock",
                                        !.components = components,
                                        !.lock = GetLock(lock.created)]]
        /\ task' = [task EXCEPT ![c] =
                        IF free THEN Gathered(started.req.language) ELSE @]

\* A call as it is made; it records the calls that are under way.
Started(req) ==
    [IdleCall EXCEPT
        !.req = req,
        !.overlaps = {d \in Calls : call[d].pc \notin {"idle", "done"}}]

\* Mutant: the integration id is added to the loaded components.
CallWithLoaded(c, req) ==
    /\ call[c].pc = "idle"
    /\ \A d \in Calls : d < c => call[d].pc # "idle"
    /\ req.integration # None \/ ~req.config_flow
    /\ EnterLock(c, Started(req),
                 IF req.integration # None THEN loaded \cup {req.integration} ELSE loaded)
    /\ UNCHANGED <<cache, loaded, bad, order, loadEvents, failEvents, writes>>

\* Lines 184-201: a call with an integration id or without the config-flow
\* flag reaches the lock without suspending.
Call(c, req) ==
    /\ call[c].pc = "idle"
    /\ \A d \in Calls : d < c => call[d].pc # "idle"
    /\ req.integration # None \/ ~req.config_flow
    /\ EnterLock(c, Started(req),
                 IF req.integration # None THEN {req.integration} ELSE loaded)
    /\ UNCHANGED <<cache, loaded, bad, order, loadEvents, failEvents, writes>>

\* Lines 186-187: hass.config.components is read, then the call awaits
\* async_get_config_flows.
CallConfigFlows(c, req) ==
    /\ call[c].pc = "idle"
    /\ \A d \in Calls : d < c => call[d].pc # "idle"
    /\ req.integration = None /\ req.config_flow
    /\ call' = [call EXCEPT ![c] =
                    [Started(req) EXCEPT !.pc = "config_flows", !.components = loaded]]
    /\ UNCHANGED <<cache, lock, task, loaded, bad, order,
                   loadEvents, failEvents, writes>>

\* Lines 187-201: the config flows arrive.
ConfigFlowsReturn(c) ==
    /\ call[c].pc = "config_flows"
    /\ EnterLock(c, call[c], call[c].components \cup ConfigFlows)
    /\ UNCHANGED <<cache, loaded, bad, order, loadEvents, failEvents, writes>>

\* Line 201: a waiter woken by the release of the lock takes it and awaits
\* gather.
LockAcquired(c) ==
    /\ call[c].pc = "lock"
    /\ ~lock.locked
    /\ lock.waiters # <<>> /\ Head(lock.waiters) = c
    /\ lock' = [lock EXCEPT !.locked = TRUE, !.holder = c, !.waiters = Tail(lock.waiters)]
    /\ call' = [call EXCEPT ![c].pc = "gather"]
    /\ task' = [task EXCEPT ![c] = Gathered(call[c].req.language)]
    /\ UNCHANGED <<cache, loaded, bad, order, loadEvents, failEvents, writes>>

\* ------------------------------------------ async_get_component_resources
\* Lines 118-119: the cache partition of a language, created when missing.
Partition(language) ==
    IF language \in DOMAIN cache THEN cache[language][2] ELSE EmptyDict

\* Line 123: the domains to resolve.
MissingDomains(missing_loaded) == {Last(split(l)) : l \in missing_loaded}

\* gather's outer future once task i of call c has run a step that left the
\* call's tasks as ts: the first exception is raised at once, the results
\* wait for every task.
Outer(outer, c, ts, i) ==
    IF outer # Pending THEN outer
    ELSE IF ts[i].pc = "failed" THEN ts[i].result
    ELSE IF \A j \in TasksOf(c) : ts[j].pc = "done" THEN Ready
    ELSE Pending

\* The task ends: it returns its resources or raises.
EndTask(t, outcome) ==
    [t EXCEPT !.pc = IF outcome[1] = "error" THEN "failed" ELSE "done",
              !.result = outcome]

\* Mutant: the entries are dropped, the partition stays as it was.
WrittenNowhere(language, entries) ==
    Update(cache, language :> Dict(Partition(language)))

\* Writing entries into the partition of a language.
Written(language, entries) ==
    Update(cache, language :> Dict(Update(Partition(language), entries)))

Counted(pairs) ==
    [pair \in DOMAIN writes |-> IF pair \in pairs THEN writes[pair] + 1 ELSE writes[pair]]

\* Mutant: the cache is not consulted, every component counts as missing.
FirstStepUncached(t, components) ==
    IF t.pc # "created" THEN t
    ELSE [t EXCEPT !.pc = "resolving", !.missing_loaded = components]

\* Mutant: a component recorded as an empty tree counts as missing again.
FirstStepRetrying(t, components) ==
    LET translation_cache == Partition(t.language)
        missing_loaded ==
            {l \in components : l \in DOMAIN translation_cache
                                    => translation_cache[l] = Dict(EmptyDict)}
    IN  IF t.pc # "created" THEN t
        ELSE IF MissingDomains(missing_loaded) = {}
        THEN EndTask(t, build_resources(translation_cache, components))
        ELSE [t EXCEPT !.pc = "resolving", !.missing_loaded = missing_loaded]

\* Lines 118-132: the first step of a task computes what is missing and
\* awaits the integrations; with nothing missing it runs to its return (line
\* 167) without suspending.
FirstStep(t, components) ==
    LET translation_cache == Partition(t.language)
        missing_loaded == components \ DOMAIN translation_cache
    IN  IF t.pc # "created" THEN t
        ELSE IF MissingDomains(missing_loaded) = {}
        THEN EndTask(t, build_resources(translation_cache, components))
        ELSE [t EXCEPT !.pc = "resolving", !.missing_loaded = missing_loaded]

\* The tasks of a gather take their first steps one after the other, in the
\* order gather scheduled them: nothing runs between two callbacks that were
\* queued together.
TasksStart(c) ==
    LET components == call[c].components
        one == [task[c] EXCEPT ![primary] = FirstStep(@, components)]
        two == [one EXCEPT ![fallback] = FirstStep(@, components)]
        outer == Outer(Outer(call[c].outer, c, one, primary), c, two, fallback)
        languages == {two[i].language : i \in TasksOf(c)}
    IN  /\ task[c][primary].pc = "created"
        /\ cache' = [language \in DOMAIN cache \cup languages |->
                        Dict(Partition(language))]
        /\ task' = [task EXCEPT ![c] = two]
        /\ call' = [call EXCEPT
                        ![c].outer = outer,
                        ![c].nresolve =
                            Cardinality({i \in TasksOf(c) : two[i].pc = "resolving"})]
        /\ UNCHANGED <<lock, loaded, bad, order, loadEvents, failEvents, writes>>

\* Mutant: the components whose integration was found get their empty tree
\* before the error of the one that was not found is raised.
TaskResolvedWritingFirst(c, i) ==
    LET t == task[c][i]
        components == call[c].components
        missing_domains == MissingDomains(t.missing_loaded)
        missing_integrations == [domain \in missing_domains |-> Registry(domain)]
        path(l) == component_translation_file(
                        l, t.language, missing_integrations[Last(split(l))])
        markers == {l \in t.missing_loaded :
                        Registry(Last(split(l))) # NotFound /\ path(l) = None}
        missing_files == [l \in t.missing_loaded \ markers |-> path(l)]
        written == Written(t.language, [l \in markers |-> Dict(EmptyDict)])
        outcome == build_resources(written[t.language][2], components)
    IN  /\ t.pc = "resolving"
        /\ IF \E domain \in missing_domains : Registry(domain) = NotFound
           THEN /\ task' = [task EXCEPT ![c][i] =
                                EndTask(t, <<"error", "IntegrationNotFound">>)]
                /\ call' = [call EXCEPT ![c].outer = Outer(@, c, task'[c], i)]
                /\ cache' = written
                /\ writes' = Counted({t.language} \X markers)
                /\ UNCHANGED loadEvents
           ELSE /\ cache' = written
                /\ writes' = Counted({t.language} \X markers)
                /\ IF DOMAIN missing_files = {}
                   THEN /\ task' = [task EXCEPT ![c][i] =
                                        EndTask([t EXCEPT !.missing_integrations =
                                                            missing_integrations],
                                                outcome)]
                        /\ call' = [call EXCEPT ![c].outer = Outer(@, c, task'[c], i)]
                        /\ UNCHANGED loadEvents
                   ELSE /\ task' = [task EXCEPT ![c][i] =
                                        [t EXCEPT !.pc = "loading",
                                                  !.missing_integrations =
                                                        missing_integrations,
                                                  !.missing_files = missing_files]]
                        /\ call' = [call EXCEPT ![c].nload = @ + 1]
                        /\ loadEvents' = loadEvents \cup
                                {<<c, i, t.language, l>> : l \in DOMAIN missing_files}
        /\ UNCHANGED <<lock, loaded, bad, order, failEvents>>

\* Lines 125-154: the integrations arrive (or one is not found); the
\* components without a file get their empty tree, the others go to the
\* loader job, which the task awaits.
TaskResolved(c, i) ==
    LET t == task[c][i]
        components == call[c].components
        missing_domains == MissingDomains(t.missing_loaded)
        missing_integrations == [domain \in missing_domains |-> Registry(domain)]
        path(l) == component_translation_file(
                        l, t.language, missing_integrations[Last(split(l))])
        markers == {l \in t.missing_loaded : path(l) = None}
        missing_files == [l \in t.missing_loaded \ markers |-> path(l)]
        written == Written(t.language, [l \in markers |-> Dict(EmptyDict)])
        outcome == build_resources(written[t.language][2], components)
    IN  /\ t.pc = "resolving"
        /\ IF \E domain \in missing_domains : Registry(domain) = NotFound
           THEN /\ task' = [task EXCEPT ![c][i] =
                                EndTask(t, <<"error", "IntegrationNotFound">>)]
                /\ call' = [call EXCEPT ![c].outer = Outer(@, c, task'[c], i)]
                /\ UNCHANGED <<cache, writes, loadEvents>>
           ELSE /\ cache' = written
                /\ writes' = Counted({t.language} \X markers)
                /\ IF DOMAIN missing_files = {}
                   THEN /\ task' = [task EXCEPT ![c][i] =
                                        EndTask([t EXCEPT !.missing_integrations =
                                                            missing_integrations],
                                                outcome)]
                        /\ call' = [call EXCEPT ![c].outer = Outer(@, c, task'[c], i)]
                        /\ UNCHANGED loadEvents
                   ELSE /\ task' = [task EXCEPT ![c][i] =
                                        [t EXCEPT !.pc = "loading",
                                                  !.missing_integrations =
                                                        missing_integrations,
                                                  !.missing_files = missing_files]]
                        /\ call' = [call EXCEPT ![c].nload = @ + 1]
                        /\ loadEvents' = loadEvents \cup
                                {<<c, i, t.language, l>> : l \in DOMAIN missing_files}
        /\ UNCHANGED <<lock, loaded, bad, order, failEvents>>

\* Mutant: no title is put in.
WithoutTitles(loaded_translations, missing_integrations) == loaded_translations

\* Lines 156-162: a loaded component (no dot in its id) without a title gets
\* the name of its integration.
WithTitles(loaded_translations, missing_integrations) ==
    [l \in DOMAIN loaded_translations |->
        IF HasDot(l) \/ <<"title">> \in DOMAIN loaded_translations[l][2]
        THEN loaded_translations[l]
        ELSE Dict(Update(loaded_translations[l][2],
                         <<"title">> :> Str(missing_integrations[l].name)))]

\* Lines 154-167: the loader job ends; its trees get their titles and are
\* merged into the partition, or its error is raised.
TaskLoaded(c, i) ==
    LET t == task[c][i]
        job == load_translations_files(t.missing_files)
        loaded_translations == WithTitles(job[2], t.missing_integrations)
        written == Written(t.language, loaded_translations)
        outcome == build_resources(written[t.language][2], call[c].components)
    IN  /\ t.pc = "loading"
        /\ IF job[1] = "error"
           THEN /\ task' = [task EXCEPT ![c][i] = EndTask(t, job)]
                /\ call' = [call EXCEPT ![c].outer = Outer(@, c, task'[c], i)]
                /\ failEvents' = failEvents \cup
                        {<<c, i, t.language, l>> : l \in DOMAIN t.missing_files}
                /\ UNCHANGED <<cache, writes>>
           ELSE /\ cache' = written
                /\ writes' = Counted({t.language} \X DOMAIN loaded_translations)
                /\ task' = [task EXCEPT ![c][i] = EndTask(t, outcome)]
                /\ call' = [call EXCEPT ![c].outer = Outer(@, c, task'[c], i)]
                /\ UNCHANGED failEvents
        /\ UNCHANGED <<lock, loaded, bad, order, loadEvents>>

\* ------------------------------------------- async_get_translations, end
\* x or {}: a missing key (None), an empty str and an empty dict are falsy.
OrEmpty(tree, category) ==
    IF category \notin DOMAIN tree THEN Dict(EmptyDict)
    ELSE IF IsDict(tree[category]) /\ DOMAIN tree[category][2] = {} THEN Dict(EmptyDict)
    ELSE IF ~IsDict(tree[category]) /\ tree[category][2] = "" THEN Dict(EmptyDict)
    ELSE tree[category]

\* Mutant: the category is ignored.
FlatUnnarrowed(resources, category) ==
    flatten(<<"component">> :> Dict(resources))

\* Lines 206-212 and 217-223: narrow each domain to the category, if one is
\* given, and flatten below "component".
Flat(resources, category) ==
    LET narrowed == IF category # None
                    THEN [domain \in DOMAIN resources |->
                            Dict(category :> OrEmpty(resources[domain][2], category))]
                    ELSE resources
    IN  flatten(<<"component">> :> Dict(narrowed))

\* Mutant: the English mapping overwrites the primary one.
TranslationsFallbackWins(language, category, results) ==
    IF language # en
    THEN Update(Flat(results[primary], category), Flat(results[fallback], category))
    ELSE Flat(results[primary], category)

\* Lines 204-227: the mapping returned from the results of gather.
Translations(language, category, results) ==
    IF language # en
    THEN Update(Flat(results[fallback], category), Flat(results[primary], category))
    ELSE Flat(results[primary], category)

\* Mutant: when the primary fetch failed, the mapping of the English fetch
\* alone is returned if there is one.
ReturnedDegraded(c) ==
    IF call[c].outer = Ready
    THEN <<"ok", Translations(call[c].req.language, call[c].req.category,
                              [i \in TasksOf(c) |-> task[c][i].result[2]])>>
    ELSE IF task[c][fallback].pc = "done"
    THEN <<"ok", Flat(task[c][fallback].result[2], call[c].req.category)>>
    ELSE call[c].outer

\* Lines 202-227: what the call returns once gather has returned the results
\* of its tasks, or the error gather raised.
Returned(c) ==
    IF call[c].outer = Ready
    THEN <<"ok", Translations(call[c].req.language, call[c].req.category,
                              [i \in TasksOf(c) |-> task[c][i].result[2]])>>
    ELSE call[c].outer

\* Mutant: the lock is released only when gather returned its results.
GatherReturnHolding(c) ==
    /\ call[c].pc = "gather"
    /\ call[c].outer # Pending
    /\ lock' = IF call[c].outer = Ready
               THEN [lock EXCEPT !.locked = FALSE, !.holder = 0]
               ELSE lock
    /\ call' = [call EXCEPT ![c].pc = "done", ![c].result = Returned(c)]
    /\ UNCHANGED <<cache, task, loaded, bad, order, loadEvents, failEvents, writes>>

\* Lines 201-227: gather returns or raises; the lock is released (waking the
\* first waiter) and the call returns the mapping or raises the error.
GatherReturn(c) ==
    /\ call[c].pc = "gather"
    /\ call[c].outer # Pending
    /\ lock' = [lock EXCEPT !.locked = FALSE, !.holder = 0]
    /\ call' = [call EXCEPT ![c].pc = "done", ![c].result = Returned(c)]
    /\ UNCHANGED <<cache, task, loaded, bad, order, loadEvents, failEvents, writes>>

\* ------------------------------------------------------------ specification
Next ==
    /\ \E c \in Calls :
        \/ \E req \in Requests : Call(c, req)
        \/ \E req \in Requests : CallConfigFlows(c, req)
        \/ ConfigFlowsReturn(c)
        \/ LockAcquired(c)
        \/ GatherReturn(c)
        \/ TasksStart(c)
        \/ \E i \in TaskIds : TaskResolved(c, i)
        \/ \E i \in TaskIds : TaskLoaded(c, i)
    /\ UNCHANGED <<data, output>>

Spec == Init /\ [][Next]_vars

\* The steps of the calls that were made: all of Next but the making of a call.
Progress ==
    /\ \E c \in Calls :
        \/ ConfigFlowsReturn(c)
        \/ LockAcquired(c)
        \/ GatherReturn(c)
        \/ TasksStart(c)
        \/ \E i \in TaskIds : TaskResolved(c, i)
        \/ \E i \in TaskIds : TaskLoaded(c, i)
    /\ UNCHANGED <<data, output>>

\* The event loop runs a callback that is ready, and every integration
\* lookup, config-flow enumeration and loader job ends: while a step of a
\* call is possible, one is taken.  Making a call is up to the callers.
Fairness == WF_vars(Progress)

FairSpec == Spec /\ Fairness

\* ------------------------------------------------------- flatten on its own
\* The trees flatten is called with: dicts nested at most MaxDepth deep whose
\* keys hold no dot, and such a dict below the key "component" (line 212).
MaxDepth == 2

TreeKeys == {<<"a">>, <<"b">>}

TreeLeaves == {"x", "y"}

RECURSIVE Trees(_)
Trees(depth) ==
    IF depth = 0 THEN {EmptyDict}
    ELSE LET values == {Str(v) : v \in TreeLeaves} \cup
                       {Dict(t) : t \in Trees(depth - 1)}
         IN  UNION {[keys -> values] : keys \in SUBSET TreeKeys}

FlattenInputs ==
    Trees(MaxDepth) \cup {<<"component">> :> Dict(t) : t \in Trees(MaxDepth)}

FlattenInit ==
    /\ cache = EmptyDict
    /\ lock = [created |-> 0, locked |-> FALSE, holder |-> 0, waiters |-> <<>>]
    /\ call = [c \in Calls |-> IdleCall]
    /\ task = [c \in Calls |-> [i \in TaskIds |-> NoTask]]
    /\ loaded = {}
    /\ bad = {}
    /\ order = Forward
    /\ loadEvents = {}
    /\ failEvents = {}
    /\ writes = [pair \in Languages \X ComponentIds |-> 0]
    /\ data \in FlattenInputs
    /\ output = NoResult

\* Lines 34-36: flatten(data) returns.
FlattenCall ==
    /\ output = NoResult
    /\ output' = <<"ok", flatten(data)>>
    /\ UNCHANGED <<cache, lock, call, task, loaded, bad, order,
                   loadEvents, failEvents, writes, data>>

FlattenNext == FlattenCall

FlattenSpec == FlattenInit /\ [][FlattenNext]_vars

\* ================================================================== claims
Pairs == Languages \X ComponentIds

\* The tasks that have started and not yet finished.
Running(c, i) == task[c][i].pc \in {"resolving", "loading"}

\* How often the tasks of calls a and b handed a pair to the file loader.
LoadsOf(a, b, pair) ==
    Cardinality({e \in loadEvents : e[1] \in {a, b} /\ <<e[3], e[4]>> = pair})

\* C1: two overlapping calls for the same language hand each (language,
\* component) pair that was missing from the cache before they began to the
\* file loader at most once in total.  (A task hands over only pairs it
\* found missing when it started, and no entry leaves the cache, so every
\* pair the calls hand over was missing before they began.)  A pair whose
\* batch failed is left out: the next call retries it.
C1_NoDuplicateLoads ==
    \A a \in Calls : \A b \in Calls \ {a} :
        (a \in call[b].overlaps /\ call[a].req.language = call[b].req.language)
        => \A pair \in Pairs :
                (\A e \in failEvents : <<e[3], e[4]>> # pair)
                => LoadsOf(a, b, pair) <= 1

\* C2: every task that has started and not finished belongs to the call that
\* holds the lock.
C2_LockHeldForFetch ==
    \A c \in Calls : \A i \in TaskIds :
        Running(c, i) => lock.locked /\ lock.holder = c

\* C3: an entry of the cache is never removed and never assigned again.
C3_AppendOnly ==
    [][\A pair \in Present : pair \in Present' /\ writes'[pair] = writes[pair]]_vars

\* The successful calls with the arguments and the component set of call c
\* that had returned when c was made.
Repeated(c) ==
    {d \in Calls : /\ d < c /\ d \notin call[c].overlaps
                   /\ call[d].result[1] = "ok"
                   /\ call[d].req = call[c].req
                   /\ call[d].components = call[c].components}

\* C4: a call repeated after it returned successfully resolves no
\* integration, loads no file and returns the same mapping.
C4_Idempotent ==
    \A c \in Calls :
        (call[c].pc \in {"lock", "gather", "done"} /\ Repeated(c) # {})
        => /\ call[c].nresolve = 0
           /\ call[c].nload = 0
           /\ call[c].pc = "done" =>
                \A d \in Repeated(c) : call[c].result = call[d].result

C4_Witness ==
    \E c \in Calls :
        /\ call[c].pc = "done"
        /\ call[c].req.language = nl
        /\ Cardinality(call[c].components) = 2
        /\ \E d \in Repeated(c) : DOMAIN call[d].result[2] # {}

\* C5: the step in which a loader job fails writes nothing into the cache,
\* every component of the batch is absent after it, the call fails, and the
\* empty trees written earlier by the task are still in the cache.
C5_BatchAllOrNothing ==
    [][\A c \in Calls : \A i \in TaskIds :
        (task[c][i].pc = "loading" /\ task'[c][i].pc = "failed")
        => /\ cache' = cache
           /\ \A l \in DOMAIN task[c][i].missing_files :
                <<task[c][i].language, l>> \notin Present'
           /\ call'[c].outer[1] = "error"
           /\ \A l \in task[c][i].missing_loaded \ DOMAIN task[c][i].missing_files :
                cache'[task[c][i].language][2][l] = Dict(EmptyDict)]_vars

\* The part of C5 that is about the failing task alone.
C5_FailedBatchWritesNothing ==
    [][\A c \in Calls : \A i \in TaskIds :
        (task[c][i].pc = "loading" /\ task'[c][i].pc = "failed")
        => /\ cache' = cache
           /\ call'[c].outer[1] = "error"
           /\ \A l \in task[c][i].missing_loaded \ DOMAIN task[c][i].missing_files :
                cache'[task[c][i].language][2][l] = Dict(EmptyDict)]_vars

\* C6: a call one of whose tasks failed raises the error of a failed task
\* and returns no mapping; a returned mapping comes from tasks that all
\* succeeded.
C6_NoDegradedBundle ==
    \A c \in Calls :
        /\ call[c].result[1] = "ok" => \A i \in TasksOf(c) : task[c][i].pc = "done"
        /\ (call[c].pc = "done" /\ \E i \in TasksOf(c) : task[c][i].pc = "failed")
           => /\ call[c].result[1] = "error"
              /\ \E i \in TasksOf(c) :
                    task[c][i].pc = "failed" /\ call[c].result = task[c][i].result

\* A failed call whose other fetch succeeded: a mapping of one fetch exists.
C6_Witness ==
    \E c \in Calls :
        /\ call[c].pc = "done"
        /\ call[c].result[1] = "error"
        /\ task[c][primary].pc = "failed"
        /\ task[c][fallback].pc = "done"

\* C7: for a language other than "en" the keys returned are those of the
\* flattened primary and of the flattened English mapping, each with the
\* primary value if the primary mapping has the key, else the English one.
C7_FallbackMerge ==
    \A c \in Calls :
        (call[c].result[1] = "ok" /\ call[c].req.language # en)
        => LET flat(i) == Flat(task[c][i].result[2], call[c].req.category)
               merged == call[c].result[2]
           IN  /\ DOMAIN merged = DOMAIN flat(primary) \cup DOMAIN flat(fallback)
               /\ \A k \in DOMAIN merged :
                    merged[k] = IF k \in DOMAIN flat(primary)
                                THEN flat(primary)[k] ELSE flat(fallback)[k]

\* A merge in which a key of both mappings has two values and a key is in
\* the English mapping alone.
C7_Witness ==
    \E c \in Calls :
        /\ call[c].result[1] = "ok" /\ call[c].req.language # en
        /\ LET flat(i) == Flat(task[c][i].result[2], call[c].req.category)
           IN  /\ \E k \in DOMAIN flat(primary) \cap DOMAIN flat(fallback) :
                        flat(primary)[k] # flat(fallback)[k]
               /\ DOMAIN flat(fallback) \ DOMAIN flat(primary) # {}

\* The tasks whose integrations have been resolved.
Resolved(c, i) == DOMAIN task[c][i].missing_integrations # {}

\* The missing components of a task whose integration's root directory is
\* not named like the component's domain.
OffRoot(c, i) ==
    {l \in task[c][i].missing_loaded :
        PathName(task[c][i].missing_integrations[Last(split(l))].file_path)
            # Last(split(l))}

\* The component got its empty tree and went to no loader job.
NotApplicable(c, i, l) ==
    /\ l \notin DOMAIN task[c][i].missing_files
    /\ <<c, i, task[c][i].language, l>> \notin loadEvents
    /\ cache[task[c][i].language][2][l] = Dict(EmptyDict)

\* C8 as claimed: every requested component whose integration's root
\* directory is not named like its domain is recorded as an empty tree and
\* is not loaded.
C8_SingleFileEveryId ==
    \A c \in Calls : \A i \in TaskIds :
        Resolved(c, i) => \A l \in OffRoot(c, i) : NotApplicable(c, i, l)

\* C8, amended: the same for every such component whose id is not a platform
\* id (two dot-separated segments); and a task that fails after resolving
\* fails on a file of its loader job, where no such component is.
C8_SingleFileComponent ==
    \A c \in Calls : \A i \in TaskIds :
        Resolved(c, i)
        => /\ \A l \in OffRoot(c, i) :
                Len(split(l)) # 2 => NotApplicable(c, i, l)
           /\ task[c][i].pc = "failed"
              => load_translations_files(task[c][i].missing_files)[1] = "error"

\* A call that returned with the single-file component solo among its
\* components, which one of its tasks recorded as an empty tree.
C8_Witness ==
    \E c \in Calls : \E i \in TaskIds :
        /\ call[c].result[1] = "ok"
        /\ Resolved(c, i)
        /\ solo \in OffRoot(c, i)
        /\ NotApplicable(c, i, solo)

\* The keys a domain may have in the mapping of category c: component.<domain>.<c>
\* and component.<domain>.<c>.<rest>.
InCategory(k, domain, category) ==
    LET stem == <<"component", Dot>> \o domain \o <<Dot>> \o category
    IN  \/ k = stem
        \/ /\ Len(k) > Len(stem) + 1
           /\ SubSeq(k, 1, Len(stem) + 1) = stem \o <<Dot>>

\* The domains of a component set (the text before the first dot of each id).
Domains(components) == {BeforeFirstDot(l) : l \in components}

\* C9: with a category, every key returned is of a requested domain and of
\* that category, and a domain none of whose trees has the category has no
\* key in the mapping.
C9_CategoryNarrowing ==
    \A c \in Calls :
        (call[c].result[1] = "ok" /\ call[c].req.category # None)
        => LET category == call[c].req.category
               mapping == call[c].result[2]
               lacks(domain) ==
                    \A i \in TasksOf(c) :
                        category \notin DOMAIN task[c][i].result[2][domain][2]
           IN  /\ \A k \in DOMAIN mapping :
                    \E domain \in Domains(call[c].components) :
                        InCategory(k, domain, category) /\ ~lacks(domain)
               /\ \A domain \in Domains(call[c].components) :
                    lacks(domain) =>
                        \A k \in DOMAIN mapping : ~InCategory(k, domain, category)

\* Both forms of key are returned, one domain lacks the category, and the
\* trees hold keys of other categories that are left out.
C9_Witness ==
    /\ \E c \in Calls :
        /\ call[c].result[1] = "ok" /\ call[c].req.category = <<"title">>
        /\ <<"component", Dot, "hue", Dot, "title">> \in DOMAIN call[c].result[2]
        /\ solo \in call[c].components
        /\ <<"state">> \in DOMAIN task[c][primary].result[2][hue][2]
    /\ \E c \in Calls :
        /\ call[c].result[1] = "ok" /\ call[c].req.category = <<"state">>
        /\ <<"component", Dot, "light", Dot, "state", Dot, "on">>
                \in DOMAIN call[c].result[2]
        /\ <<"name">> \in DOMAIN task[c][fallback].result[2][light][2]

\* The requested components of a domain.
OfDomain(components, domain) == {l \in components : BeforeFirstDot(l) = domain}

\* C10: in the step in which a task returns, its resources have one entry
\* per domain of the requested ids; the keys of an entry are those of the
\* cached trees of the ids of its domain, each with the value one of these
\* trees gives it; and the trees that were in the cache are as before.
C10_DomainAggregation ==
    [][\A c \in Calls : \A i \in TaskIds :
        (task[c][i].pc # "done" /\ task'[c][i].pc = "done")
        => LET components == call[c].components
               resources == task'[c][i].result[2]
               before == cache[task'[c][i].language][2]
               after == cache'[task'[c][i].language][2]
           IN  /\ DOMAIN resources = Domains(components)
               /\ \A domain \in Domains(components) :
                    /\ DOMAIN resources[domain][2] =
                        UNION {DOMAIN after[l][2] : l \in OfDomain(components, domain)}
                    /\ \A k \in DOMAIN resources[domain][2] :
                        \E l \in OfDomain(components, domain) :
                            /\ k \in DOMAIN after[l][2]
                            /\ resources[domain][2][k] = after[l][2][k]
               /\ \A l \in DOMAIN before : after[l] = before[l]]_vars

\* Resources of the domain light made of the trees of light and light.hue,
\* which share the key state and have a key each of their own.
C10_Witness ==
    \E c \in Calls : \E i \in TaskIds :
        /\ task[c][i].pc = "done"
        /\ call[c].components = {light, light_hue}
        /\ DOMAIN task[c][i].result[2] = {light}
        /\ {<<"title">>, <<"name">>, <<"state">>}
                \subseteq DOMAIN task[c][i].result[2][light][2]
        /\ <<"name">> \notin DOMAIN cache[task[c][i].language][2][light][2]
        /\ <<"title">> \notin DOMAIN cache[task[c][i].language][2][light_hue][2]

\* The component set the arguments of call c select.
Selected(c) ==
    IF call[c].req.integration # None THEN {call[c].req.integration}
    ELSE IF call[c].req.config_flow THEN loaded \cup ConfigFlows
    ELSE loaded

\* C11: the components a call fetches are the integration id alone when one
\* is given, whatever the config-flow flag and the loaded components; else
\* the loaded components, with the config-flow domains if the flag is set.
C11_ComponentSelection ==
    \A c \in Calls :
        call[c].pc \in {"lock", "gather", "done"} => call[c].components = Selected(c)

\* A call with an id and the flag set next to a call with the flag alone
\* whose config flows add a domain to the loaded components.
C11_Witness ==
    \E c \in Calls : \E d \in Calls :
        /\ call[c].pc = "done" /\ call[d].pc = "done"
        /\ call[c].req.integration = ghost /\ call[c].req.config_flow
        /\ call[c].components = {ghost} /\ loaded # {}
        /\ call[d].req.integration = None /\ call[d].req.config_flow
        /\ call[d].components = loaded \cup {hue} /\ hue \notin loaded

\* The leaves of a tree: <<path of keys from the root, value>>.
RECURSIVE LeafPaths(_)
LeafPaths(tree) ==
    UNION {IF IsDict(tree[key])
           THEN {<<<<key>> \o e[1], e[2]>> : e \in LeafPaths(tree[key][2])}
           ELSE {<<<<key>>, tree[key]>>}
           : key \in DOMAIN tree}

\* The keys of a path joined with dots.
RECURSIVE Joined(_)
Joined(path) ==
    IF Len(path) = 1 THEN path[1]
    ELSE path[1] \o <<Dot>> \o Joined(Tail(path))

\* C12: flatten of a tree with dot-free keys has one entry per leaf, under
\* the dot-joined path of the leaf and with its value, and so as many
\* entries as the tree has leaves.
C12_FlattenLeaves ==
    output # NoResult
    => LET leaves == LeafPaths(data)
       IN  /\ DOMAIN output[2] = {Joined(e[1]) : e \in leaves}
           /\ \A e \in leaves : output[2][Joined(e[1])] = e[2]
           /\ Cardinality(DOMAIN output[2]) = Cardinality(leaves)

\* A flattened tree with leaves at three depths, two values and an empty
\* nested dict.
C12_Witness ==
    /\ output # NoResult
    /\ DOMAIN data = {<<"component">>}
    /\ DOMAIN data[<<"component">>][2] = TreeKeys
    /\ IsDict(data[<<"component">>][2][<<"b">>])
    /\ DOMAIN data[<<"component">>][2][<<"b">>][2] = TreeKeys
    /\ DOMAIN output[2] = {<<"component", Dot, "a">>,
                           <<"component", Dot, "b", Dot, "a">>}
    /\ output[2][<<"component", Dot, "a">>] # output[2][<<"component", Dot, "b", Dot, "a">>]
    /\ data[<<"component">>][2][<<"b">>][2][<<"b">>] = Dict(EmptyDict)

KeyError == <<"error", "KeyError">>

\* C13: no task and no call ever ends in the KeyError of build_resources,
\* and a task that returned found every requested component in the partition
\* of its language.
C13_AggregationPrecondition ==
    \A c \in Calls :
        /\ call[c].result # KeyError
        /\ \A i \in TaskIds :
            /\ task[c][i].result # KeyError
            /\ task[c][i].pc = "done"
               => call[c].components \subseteq DOMAIN Partition(task[c][i].language)

\* A task that returned after loading a file for one requested component and
\* finding another in the cache, in a call made while another was under way.
C13_Witness ==
    \E c \in Calls : \E i \in TaskIds :
        /\ task[c][i].pc = "done"
        /\ DOMAIN task[c][i].missing_files # {}
        /\ call[c].components \ task[c][i].missing_loaded # {}
        /\ call[c].overlaps # {}

\* The (language, component) pairs recorded as an empty tree.
Markers == {pair \in Present : cache[pair[1]][2][pair[2]] = Dict(EmptyDict)}

\* C14: once a pair is recorded as an empty tree, its entry stays an empty
\* tree, no task that starts has the component among those it resolves
\* integrations for, and no task hands the pair to the file loader.
C14_MarkersPermanent ==
    [][\A pair \in Markers :
        /\ cache'[pair[1]][2][pair[2]] = Dict(EmptyDict)
        /\ \A c \in Calls : \A i \in TaskIds :
                (task[c][i].pc = "created" /\ task'[c][i].pc = "resolving"
                    /\ task'[c][i].language = pair[1])
                => pair[2] \notin task'[c][i].missing_loaded
        /\ \A e \in loadEvents' \ loadEvents : <<e[3], e[4]>> # pair]_vars

\* A task of a later call that asked for solo, recorded as an empty tree, and
\* resolved the integration for light.solo alone.
C14_Witness ==
    \E c \in Calls : \E i \in TaskIds :
        /\ task[c][i].pc \in {"loading", "done", "failed"}
        /\ solo \in call[c].components
        /\ task[c][i].missing_loaded = {light_solo}
        /\ <<task[c][i].language, solo>> \in Markers
        /\ writes[<<task[c][i].language, solo>>] = 1

\* The file of a pair, or None.
FileOf(pair) ==
    component_translation_file(pair[2], pair[1], Registry(Last(split(pair[2]))))

\* C15: the entry of an id without a dot is the empty tree or has a title:
\* the file's own if it has one, else the name of the integration, beside
\* the file's other keys; the entry of an id with a dot is the file's tree
\* as it is.
C15_TitleBackfill ==
    \A pair \in Present :
        LET entry == cache[pair[1]][2][pair[2]]
            file == Files[FileOf(pair)]
            name == Str(Registry(pair[2]).name)
        IN  /\ ~HasDot(pair[2])
               => entry = Dict(EmptyDict) \/ <<"title">> \in DOMAIN entry[2]
            /\ FileOf(pair) = None => entry = Dict(EmptyDict)
            /\ (FileOf(pair) # None /\ HasDot(pair[2])) => entry = Dict(file)
            /\ (FileOf(pair) # None /\ ~HasDot(pair[2]))
               => /\ DOMAIN entry[2] = DOMAIN file \cup {<<"title">>}
                  /\ \A k \in DOMAIN file : entry[2][k] = file[k]
                  /\ <<"title">> \notin DOMAIN file => entry[2][<<"title">>] = name

\* A title kept from the file, a title set to the integration's name and
\* entries of an id with a dot that have none.
C15_Witness ==
    /\ {<<en, hue>>, <<nl, light>>, <<nl, light_hue>>, <<en, light_hue>>} \subseteq Present
    /\ cache[en][2][hue][2][<<"title">>] = Str("Hue")
    /\ Registry(hue).name # "Hue"
    /\ <<"title">> \notin DOMAIN Files[FileOf(<<nl, light>>)]
    /\ cache[nl][2][light][2][<<"title">>] = Str(Registry(light).name)
    /\ <<"title">> \notin DOMAIN cache[nl][2][light_hue][2]
    /\ <<"title">> \notin DOMAIN cache[en][2][light_hue][2]

\* C16: one lock is made at most, and every call that has reached line 201
\* enters the lock hass.data holds, the same for all of them.
C16_SingleLock ==
    /\ lock.created <= 1
    /\ \A c \in Calls :
            call[c].pc \in {"lock", "gather", "done"}
            => call[c].lock = lock.created /\ lock.created = 1

\* A call for "en" that was suspended in the config flows while a call for
\* another language, made after it, created and took the lock, and that now
\* waits for that lock.
C16_Witness ==
    \E c \in Calls : \E d \in Calls :
        /\ c < d
        /\ call[c].req.integration = None /\ call[c].req.config_flow
        /\ call[c].req.language # call[d].req.language
        /\ call[c].pc = "lock" /\ call[d].pc = "gather"
        /\ lock.holder = d /\ lock.waiters = <<c>>
        /\ call[c].lock = call[d].lock

\* The cache fills of a call.
Fills(c) == {i \in TaskIds : task[c][i].pc # "none"}

\* The partition of a language is created or changed in the step.
PartitionChanged(language) ==
    \/ (language \in DOMAIN cache') # (language \in DOMAIN cache)
    \/ language \in DOMAIN cache /\ cache'[language] # cache[language]

\* C17: a call for "en" runs one fill, for "en"; a call for another language
\* runs two, one for the language and one for "en"; and a step changes the
\* partition of a language only if a fill for that language takes the step.
C17_PartitionFrame ==
    [][/\ \A c \in Calls :
            call'[c].pc \in {"gather", "done"}
            => /\ Fills(c)' = IF call'[c].req.language = en
                              THEN {primary} ELSE {primary, fallback}
               /\ task'[c][primary].language = call'[c].req.language
               /\ \A i \in Fills(c)' \ {primary} : task'[c][i].language = en
       /\ \A language \in Languages :
            PartitionChanged(language)
            => \E c \in Calls : \E i \in Fills(c) :
                    /\ task'[c][i] # task[c][i]
                    /\ task[c][i].language = language
                    /\ language \in {call[c].req.language, en}]_vars

\* A call for "de" has run its two fills and made the partitions of "de" and
\* "en", beside the partition of "nl" that an earlier call filled.
C17_Witness ==
    \E c \in Calls : \E d \in Calls :
        /\ call[c].req.language = nl /\ call[c].result[1] = "ok"
        /\ call[d].req.language = de /\ call[d].pc = "done"
        /\ c \notin call[d].overlaps
        /\ Fills(d) = {primary, fallback}
        /\ DOMAIN cache = Languages
        /\ DOMAIN cache[nl][2] # {} /\ DOMAIN cache[de][2] = {}

\* The error of an integration that is not installed.
IntegrationNotFound == <<"error", "IntegrationNotFound">>

\* C18: a task whose resolution fails has written no entry and started no
\* load: its first step adds no entry to the cache, the step in which the
\* resolution fails leaves the cache and the loader alone, and no load was
\* ever started for the task.
C18_ResolutionFailureWritesNothing ==
    [][\A c \in Calls : \A i \in TaskIds :
        /\ (task[c][i].pc = "created" /\ task'[c][i].pc = "resolving")
           => Present' = Present /\ writes' = writes /\ loadEvents' = loadEvents
        /\ (task[c][i].pc = "resolving" /\ task'[c][i].result = IntegrationNotFound)
           => /\ cache' = cache /\ writes' = writes /\ loadEvents' = loadEvents
              /\ task'[c][i].pc = "failed"
              /\ \A e \in loadEvents' : <<e[1], e[2]>> # <<c, i>>]_vars

\* A task that asked for solo, a single file, and for ghost, which is not
\* installed, has failed, and solo has no entry.
C18_Witness ==
    \E c \in Calls : \E i \in TaskIds :
        /\ task[c][i].result = IntegrationNotFound
        /\ {solo, ghost} \subseteq task[c][i].missing_loaded
        /\ <<task[c][i].language, solo>> \notin Present

\* C19: the lock is held only by a call that is awaiting its gather, so a
\* call that has returned or failed has released it; a call waiting for the
\* lock leaves the wait only by taking the lock; and in the end every call
\* that was made has returned or failed (so every wait for the lock ended).
C19_LockReleaseAndProgress ==
    /\ [](lock.locked => lock.holder \in Calls /\ call[lock.holder].pc = "gather")
    /\ [][\A c \in Calls :
            (call[c].pc = "lock" /\ call'[c].pc # "lock")
            => call'[c].pc = "gather" /\ lock'.locked /\ lock'.holder = c]_vars
    /\ <>[](\A c \in Calls : call[c].pc \in {"idle", "done"})

\* A call that waited for the lock while the call holding it failed, and
\* that then took the lock and returned; the lock is free.
C19_Witness ==
    \E c \in Calls : \E d \in Calls :
        /\ c \in call[d].overlaps
        /\ ~call[c].req.config_flow /\ ~call[d].req.config_flow
        /\ call[c].pc = "done" /\ call[c].result[1] = "error"
        /\ call[d].pc = "done" /\ call[d].result[1] = "ok"
        /\ ~lock.locked /\ lock.waiters = <<>>

====
